---- MODULE Spec2Model ----
(***************************************************************************)
(* A model of the JDCloud request signer (src/src/signer.rs).              *)
(*                                                                         *)
(* A string is the sequence of its characters, and a character is its      *)
(* code point: "GET" is << 71, 69, 84 >>.  A header value is the sequence  *)
(* of its bytes.  A digest (SHA-256, HMAC-SHA256, base16) is a symbolic    *)
(* term over its input, a string of characters outside Unicode: equal      *)
(* inputs give equal digests and different inputs give different ones.    *)
(***************************************************************************)
EXTENDS Integers, Sequences, FiniteSets, TLC

VARIABLES
    signer,     \* the Signer: credential (ak, sk), service_name, region
    request,    \* the Request<String> being built and signed
    result,     \* outcome of the last call on request
    nsigns,     \* number of signing calls made on request
    pre,        \* the request as it was when the last call started
    call,       \* the last call: operation, timestamp and nonce
    request2,   \* a second request, signed with the same inputs
    result2,    \* outcome of the call on request2
    query,      \* input of make_canonical_query_str: Option<&str>
    qvec,       \* the local vec of make_canonical_query_str after sort_by
    qcanon,     \* the value returned by make_canonical_query_str
    query2,     \* a rearrangement of the pairs of query
    qcanon2,    \* the value returned for query2
    hvalue,     \* input of trim_all: a header value
    hline,      \* the canonical header block of a request with that value
    first_signed \* the request as its first signing left it

vars ==
    << signer, request, result, nsigns, pre, call, request2, result2,
       query, qvec, qcanon, query2, qcanon2, hvalue, hline, first_signed >>

-----------------------------------------------------------------------------
(* Bounds of the model.                                                    *)

\* headers the caller gives the request builder before signing
MaxHeaders == 2
\* signing calls made on one request
MaxSigns == 1
\* pieces between '&' of a raw query string
MaxQueryPieces == 3
\* characters of a header value given to trim_all
MaxValueLen == 6
\* signing calls repeated on a signed request
MaxResigns == 2

-----------------------------------------------------------------------------
(* Characters and strings.                                                 *)

\* U+FFFD, which from_utf8_lossy puts in place of an invalid byte sequence
REPLACEMENT_CHARACTER == 65533

\* http::header::value::is_visible_ascii over the bytes of a value: the
\* bytes of a str beyond ASCII are all above 127, and the characters of a
\* digest (above 0x10FFFF) are hexadecimal digits
is_visible_ascii(c) ==
    \/ (c >= 32 /\ c < 127)
    \/ c = 9
    \/ c > 1114111

\* HeaderValue::from_str(s) and HeaderValue::to_str() succeed
IsVisibleStr(s) == \A i \in 1..Len(s) : is_visible_ascii(s[i])

\* u8::to_ascii_lowercase, as HeaderName applies it to a header name
to_ascii_lowercase(c) == IF c >= 65 /\ c <= 90 THEN c + 32 ELSE c

ToLower(s) == [ i \in 1..Len(s) |-> to_ascii_lowercase(s[i]) ]

\* str::partial_cmp: lexicographic in byte order, which for UTF-8 is the
\* order of the code points
StrCmp(a, b) ==
    LET n == IF Len(a) < Len(b) THEN Len(a) ELSE Len(b)
        diff == { i \in 1..n : a[i] # b[i] }
    IN  IF diff = {}
        THEN IF Len(a) < Len(b) THEN "Less"
             ELSE IF Len(a) > Len(b) THEN "Greater" ELSE "Equal"
        ELSE LET i == CHOOSE j \in diff : \A k \in diff : j <= k
             IN  IF a[i] < b[i] THEN "Less" ELSE "Greater"

RECURSIVE Concat(_)
\* the strings of ss, one after the other
Concat(ss) == IF ss = <<>> THEN <<>> ELSE Head(ss) \o Concat(Tail(ss))

-----------------------------------------------------------------------------
(* String constants of the signer.                                         *)

\* "e3b0c44298fc1c149afbf4c8996fb92427ae41e4649b934ca495991b7852b855"
EMPTY_STRING_SHA256 ==
    << 101, 51, 98, 48, 99, 52, 52, 50, 57, 56, 102, 99, 49, 99, 49,
           52, 57, 97, 102, 98, 102, 52, 99, 56, 57, 57, 54, 102,
           98, 57, 50, 52, 50, 55, 97, 101, 52, 49, 101, 52, 54,
           52, 57, 98, 57, 51, 52, 99, 97, 52, 57, 53, 57, 57,
           49, 98, 55, 56, 53, 50, 98, 56, 53, 53 >>

\* "x-jdcloud-date"
DATE_HEADER ==
    << 120, 45, 106, 100, 99, 108, 111, 117, 100, 45, 100, 97, 116,
           101 >>

\* "x-jdcloud-nonce"
NONCE_HEADER ==
    << 120, 45, 106, 100, 99, 108, 111, 117, 100, 45, 110, 111, 110,
           99, 101 >>

\* "JDCLOUD2-HMAC-SHA256"
HMAC_SHA256 ==
    << 74, 68, 67, 76, 79, 85, 68, 50, 45, 72, 77, 65, 67, 45, 83,
           72, 65, 50, 53, 54 >>

\* "jdcloud2_request"
JDCLOUD_REQUEST ==
    << 106, 100, 99, 108, 111, 117, 100, 50, 95, 114, 101, 113, 117,
           101, 115, 116 >>

\* "JDCLOUD2"
SIGNING_KEY ==
    << 74, 68, 67, 76, 79, 85, 68, 50 >>

\* "JdcloudSdkRust/0.1.0"
DEFAULT_USER_AGENT ==
    << 74, 100, 99, 108, 111, 117, 100, 83, 100, 107, 82, 117, 115,
           116, 47, 48, 46, 49, 46, 48 >>

\* http::header::USER_AGENT, "user-agent"
USER_AGENT ==
    << 117, 115, 101, 114, 45, 97, 103, 101, 110, 116 >>

\* "authorization": the name under which "Authorization" is stored
AUTHORIZATION ==
    << 97, 117, 116, 104, 111, 114, 105, 122, 97, 116, 105, 111,
           110 >>

-----------------------------------------------------------------------------
(* http::HeaderMap: the entries in the order of their insertion, each a    *)
(* lowercase name with the sequence of its values (never empty).           *)

HeaderMap_find(headers, name) ==
    LET at == { i \in 1..Len(headers) : headers[i].name = name }
    IN  IF at = {} THEN 0 ELSE CHOOSE i \in at : TRUE

\* headers.get(name).is_none() is ~HeaderMap_contains(headers, name)
HeaderMap_contains(headers, name) == HeaderMap_find(headers, name) # 0

\* headers.get_all(name): every value of the name, in order
HeaderMap_get_all(headers, name) ==
    LET i == HeaderMap_find(headers, name)
    IN  IF i = 0 THEN <<>> ELSE headers[i].values

\* HeaderMap_insert that keeps the values the name had
HeaderMap_insert_keeping(headers, name, value) ==
    LET i == HeaderMap_find(headers, name)
    IN  IF i = 0
        THEN Append(headers, [name |-> name, values |-> << value >>])
        ELSE [headers EXCEPT
                 ![i] = [name |-> name, values |-> Append(headers[i].values, value)]]

\* HeaderMap::insert: the value replaces every value the name had
HeaderMap_insert(headers, name, value) ==
    LET i == HeaderMap_find(headers, name)
    IN  IF i = 0
        THEN Append(headers, [name |-> name, values |-> << value >>])
        ELSE [headers EXCEPT ![i] = [name |-> name, values |-> << value >>]]

\* HeaderMap::append, which Builder::header uses: the value is added to
\* the values the name has
HeaderMap_append(headers, name, value) ==
    LET i == HeaderMap_find(headers, name)
    IN  IF i = 0
        THEN Append(headers, [name |-> name, values |-> << value >>])
        ELSE [headers EXCEPT
                 ![i] = [name |-> name, values |-> Append(headers[i].values, value)]]

RECURSIVE HeaderMap_iter(_)
\* request.headers().into_iter(): one (name, value) item per value
HeaderMap_iter(headers) ==
    IF headers = <<>> THEN <<>>
    ELSE [ j \in 1..Len(Head(headers).values) |->
             << Head(headers).name, Head(headers).values[j] >> ]
         \o HeaderMap_iter(Tail(headers))

-----------------------------------------------------------------------------
(* trim_all                                                                *)

RECURSIVE TrimStart(_)
TrimStart(s) ==
    IF s # <<>> /\ Head(s) = 32 THEN TrimStart(Tail(s)) ELSE s

RECURSIVE TrimEnd(_)
TrimEnd(s) ==
    IF s # <<>> /\ s[Len(s)] = 32 THEN TrimEnd(SubSeq(s, 1, Len(s) - 1)) ELSE s

\* trim_matches_space that trims the start only
trim_start_only(s) == TrimStart(s)

\* s.trim_matches(' ')
trim_matches_space(s) == TrimEnd(TrimStart(s))

RECURSIVE trim_all_loop(_, _, _)
\* the for loop of trim_all over the characters still to read
trim_all_loop(chars, res, last_one_is_space) ==
    IF chars = <<>> THEN res
    ELSE LET c == Head(chars)
         IN  IF c = 32
             THEN IF ~last_one_is_space
                  THEN trim_all_loop(Tail(chars), Append(res, c), TRUE)
                  ELSE trim_all_loop(Tail(chars), res, last_one_is_space)
             ELSE trim_all_loop(Tail(chars), Append(res, c), FALSE)

trim_all(s) == trim_all_loop(trim_matches_space(s), <<>>, TRUE)

-----------------------------------------------------------------------------
(* make_canonical_header_str_and_signed_headers                            *)

\* the comparison given to header_names.sort_by: by header name
HeaderNameCmp(a, b) == StrCmp(a[1], b[1])

\* InsertHeader without the comparison: the items stay as iterated
InsertHeader_unsorted(sorted, x) == Append(sorted, x)

RECURSIVE InsertHeader(_, _)
\* x put into a sorted vec behind every item that is not greater than it
InsertHeader(sorted, x) ==
    IF sorted = <<>> THEN << x >>
    ELSE IF HeaderNameCmp(x, Head(sorted)) = "Less" THEN << x >> \o sorted
    ELSE << Head(sorted) >> \o InsertHeader(Tail(sorted), x)

RECURSIVE SortHeaderNames(_)
\* header_names.sort_by(..): Vec::sort_by is a stable sort
SortHeaderNames(v) ==
    IF v = <<>> THEN <<>>
    ELSE InsertHeader(SortHeaderNames(SubSeq(v, 1, Len(v) - 1)), v[Len(v)])

\* IsUnsignedHeader without the authorization header
IsUnsignedHeader_user_agent_only(name) == name = USER_AGENT

\* the test that makes the loop skip a header
IsUnsignedHeader(name) == name = USER_AGENT \/ name = AUTHORIZATION

RECURSIVE canonical_header_loop(_, _, _, _)
\* the for loop over the sorted header_names; ok is FALSE when
\* x.1.to_str().unwrap() panics
canonical_header_loop(header_names, res, signed_headers, first) ==
    IF header_names = <<>>
    THEN [ok |-> TRUE, res |-> res, signed_headers |-> signed_headers]
    ELSE LET x == Head(header_names)
         IN  IF IsUnsignedHeader(x[1])
             THEN canonical_header_loop(Tail(header_names), res, signed_headers, first)
             ELSE IF ~IsVisibleStr(x[2])
             THEN [ok |-> FALSE, res |-> res, signed_headers |-> signed_headers]
             ELSE canonical_header_loop(
                      Tail(header_names),
                      res \o x[1] \o << 58 >> \o trim_all(x[2]) \o << 10 >>,
                      (IF ~first THEN signed_headers \o << 59 >> ELSE signed_headers)
                          \o x[1],
                      FALSE)

make_canonical_header_str_and_signed_headers(req) ==
    canonical_header_loop(SortHeaderNames(HeaderMap_iter(req.headers)),
                          <<>>, <<>>, TRUE)

-----------------------------------------------------------------------------
(* make_canonical_query_str                                                *)

\* u8::is_ascii_hexdigit
IsHexDigit(c) ==
    \/ (c >= 48 /\ c <= 57)
    \/ (c >= 65 /\ c <= 70)
    \/ (c >= 97 /\ c <= 102)

\* char::to_digit(16)
HexVal(c) ==
    IF c <= 57 THEN c - 48
    ELSE IF c <= 70 THEN c - 65 + 10
    ELSE c - 97 + 10

\* the uppercase hexadecimal digit of n, as percent_encode writes it
HexUpper(n) == IF n < 10 THEN 48 + n ELSE 65 + (n - 10)

RECURSIVE SplitOn(_, _)
\* slice::split: the pieces of s between the occurrences of sep
SplitOn(s, sep) ==
    LET at == { i \in 1..Len(s) : s[i] = sep }
    IN  IF at = {} THEN << s >>
        ELSE LET i == CHOOSE j \in at : \A k \in at : j <= k
             IN  << SubSeq(s, 1, i - 1) >> \o SplitOn(SubSeq(s, i + 1, Len(s)), sep)

\* form_urlencoded replace_plus: '+' stands for a space
replace_plus(s) == [ i \in 1..Len(s) |-> IF s[i] = 43 THEN 32 ELSE s[i] ]

RECURSIVE percent_decode(_)
\* percent_encoding::percent_decode: the bytes of s, "%XY" with two
\* hexadecimal digits read as one byte, any other '%' kept
percent_decode(s) ==
    IF s = <<>> THEN <<>>
    ELSE IF Head(s) = 37 /\ Len(s) >= 3 /\ IsHexDigit(s[2]) /\ IsHexDigit(s[3])
    THEN << 16 * HexVal(s[2]) + HexVal(s[3]) >> \o percent_decode(SubSeq(s, 4, Len(s)))
    ELSE << Head(s) >> \o percent_decode(Tail(s))

\* String::from_utf8_lossy over bytes none of which is a continuation byte
\* (0x80..0xBF): every byte above 0x7F is an invalid sequence of its own
\* and becomes one U+FFFD
from_utf8_lossy(bytes) ==
    [ i \in 1..Len(bytes) |->
        IF bytes[i] < 128 THEN bytes[i] ELSE REPLACEMENT_CHARACTER ]

\* form_urlencoded decode
form_decode(s) == from_utf8_lossy(percent_decode(replace_plus(s)))

\* the (name, value) of one piece: the name ends at the first '='
parse_piece(piece) ==
    LET eq == { i \in 1..Len(piece) : piece[i] = 61 }
        i == IF eq = {} THEN Len(piece) + 1
             ELSE CHOOSE j \in eq : \A k \in eq : j <= k
    IN  << form_decode(SubSeq(piece, 1, i - 1)),
           form_decode(SubSeq(piece, i + 1, Len(piece))) >>

RECURSIVE parse_pieces(_)
parse_pieces(pieces) ==
    IF pieces = <<>> THEN <<>>
    ELSE IF Head(pieces) = <<>> THEN parse_pieces(Tail(pieces))
    ELSE << parse_piece(Head(pieces)) >> \o parse_pieces(Tail(pieces))

\* url::form_urlencoded::parse: the decoded (name, value) pairs of the
\* pieces between '&', the empty pieces skipped
form_urlencoded_parse(q) == parse_pieces(SplitOn(q, 38))

\* percent_encoding::CONTROLS: 0x00..0x1F and 0x7F
CONTROLS == (0..31) \cup { 127 }

\* CONTROLS.add(b'-').add(b'_').add(b'.').add(b'~'): the set of the
\* characters that utf8_percent_encode is to encode
AWS4_QUERY_ITEM_ENCODE_SET == CONTROLS \cup { 45, 95, 46, 126 }

\* the UTF-8 bytes of a code point below 0x10000
Utf8Bytes(cp) ==
    IF cp < 128 THEN << cp >>
    ELSE IF cp < 2048 THEN << 192 + (cp \div 64), 128 + (cp % 64) >>
    ELSE << 224 + (cp \div 4096), 128 + ((cp \div 64) % 64), 128 + (cp % 64) >>

PercentByte(b) == << 37, HexUpper(b \div 16), HexUpper(b % 16) >>

\* what utf8_percent_encode writes for one character: the character when
\* it is ASCII and not in the set, else "%XX" for each of its bytes
percent_encode_char(c, ascii_set) ==
    IF c < 128 /\ c \notin ascii_set THEN << c >>
    ELSE LET bytes == Utf8Bytes(c)
         IN  Concat([ i \in 1..Len(bytes) |-> PercentByte(bytes[i]) ])

utf8_percent_encode(s, ascii_set) ==
    Concat([ i \in 1..Len(s) |-> percent_encode_char(s[i], ascii_set) ])

\* QueryPairCmp that compares the keys only
QueryPairCmp_keys_only(a, b) == StrCmp(a[1], b[1])

\* the comparison given to vec.sort_by: by key, and by value for equal keys
QueryPairCmp(a, b) ==
    IF a[1] = b[1] THEN StrCmp(a[2], b[2]) ELSE StrCmp(a[1], b[1])

RECURSIVE InsertPair(_, _)
InsertPair(sorted, x) ==
    IF sorted = <<>> THEN << x >>
    ELSE IF QueryPairCmp(x, Head(sorted)) = "Less" THEN << x >> \o sorted
    ELSE << Head(sorted) >> \o InsertPair(Tail(sorted), x)

\* SortPairs that leaves the vec as parsed
SortPairs_as_parsed(v) == v

RECURSIVE SortPairs(_)
\* vec.sort_by(..): Vec::sort_by is a stable sort
SortPairs(v) ==
    IF v = <<>> THEN <<>>
    ELSE InsertPair(SortPairs(SubSeq(v, 1, Len(v) - 1)), v[Len(v)])

\* the local vec once sorted; q is request.uri().query(): <<>> is None
\* and << s >> is Some(s)
canonical_query_vec(q) ==
    SortPairs(form_urlencoded_parse(IF q = <<>> THEN <<>> ELSE q[1]))

\* what the for loop writes for one pair of vec
canonical_query_item(x) ==
    utf8_percent_encode(x[1], AWS4_QUERY_ITEM_ENCODE_SET)
        \o << 61 >>
        \o utf8_percent_encode(x[2], AWS4_QUERY_ITEM_ENCODE_SET)

RECURSIVE canonical_query_loop(_, _, _)
\* the for loop that writes the pairs of vec
canonical_query_loop(vec, res, first) ==
    IF vec = <<>> THEN res
    ELSE canonical_query_loop(
             Tail(vec),
             (IF ~first THEN res \o << 38 >> ELSE res)
                 \o canonical_query_item(Head(vec)),
             FALSE)

make_canonical_query_str(q) ==
    canonical_query_loop(canonical_query_vec(q), <<>>, TRUE)

-----------------------------------------------------------------------------
(* Digests.  The input of a digest is kept, character by character, in    *)
(* characters that stand for its hexadecimal digits (the characters of    *)
(* the input moved beyond Unicode), between marks that name the digest.   *)

DigestChars(s) == [ i \in 1..Len(s) |-> s[i] + 2000000 ]

\* Sha256::input_str(s); result_str(): the digest in lowercase hexadecimal
sha256_hex(s) ==
    IF s = <<>> THEN EMPTY_STRING_SHA256
    ELSE << 1900001 >> \o DigestChars(s) \o << 1900002 >>

hmac_sha256(key, data) ==
    << 1900003 >> \o DigestChars(key) \o << 1900004 >> \o DigestChars(data)
        \o << 1900005 >>

base16(data) == << 1900006 >> \o DigestChars(data) \o << 1900007 >>

-----------------------------------------------------------------------------
(* chrono: DateTime<Utc>::format                                           *)

Pad2(n) == << 48 + (n \div 10), 48 + (n % 10) >>

Pad4(n) == Pad2(n \div 100) \o Pad2(n % 100)

\* now.format(SHORT_DATE_FORMAT_STR), "%Y%m%d"
FormatShortDate(now) == Pad4(now.year) \o Pad2(now.month) \o Pad2(now.day)

\* now.format(LONG_DATE_FORMAT_STR), "%Y%m%dT%H%M%SZ"
FormatLongDate(now) ==
    FormatShortDate(now) \o << 84 >>
        \o Pad2(now.hour) \o Pad2(now.minute) \o Pad2(now.second) \o << 90 >>

-----------------------------------------------------------------------------
(* The Signer.                                                             *)

\* Credential::is_valid: the access key and the secret key are not empty
is_valid(credential) == credential.ak # <<>> /\ credential.sk # <<>>

compute_payload_hash(req) ==
    IF req.body = <<>> THEN EMPTY_STRING_SHA256 ELSE sha256_hex(req.body)

\* ok is FALSE when the canonical headers panic
make_canonical_request_str(req) ==
    LET h == make_canonical_header_str_and_signed_headers(req)
    IN  [ok |-> h.ok,
         res |-> req.method \o << 10 >>
                 \o req.path \o << 10 >>
                 \o make_canonical_query_str(req.query) \o << 10 >>
                 \o h.res \o << 10 >>
                 \o h.signed_headers \o << 10 >>
                 \o compute_payload_hash(req),
         signed_headers |-> h.signed_headers]

make_signing_key(self, now) ==
    LET request_date == FormatShortDate(now)
        k_secret == self.credential.sk
        mac1 == hmac_sha256(SIGNING_KEY \o k_secret, request_date)
        mac2 == hmac_sha256(mac1, self.region)
        mac3 == hmac_sha256(mac2, self.service_name)
    IN  hmac_sha256(mac3, JDCLOUD_REQUEST)

make_credential_scope(self, now) ==
    FormatShortDate(now) \o << 47 >> \o self.region \o << 47 >>
        \o self.service_name \o << 47 >> \o JDCLOUD_REQUEST

make_string_to_sign(self, req, now) ==
    LET request_date_time == FormatLongDate(now)
        c == make_canonical_request_str(req)
        canonical_request == sha256_hex(c.res)
    IN  [ok |-> c.ok,
         string_to_sign |-> HMAC_SHA256 \o << 10 >>
                            \o request_date_time \o << 10 >>
                            \o make_credential_scope(self, now) \o << 10 >>
                            \o canonical_request,
         signed_headers |-> c.signed_headers]

\* format!("{} Credential={}/{}, SignedHeaders={}, Signature={}", ..)
FormatAuthorization(ak, credential_scope, signed_headers, signature) ==
    HMAC_SHA256
        \o << 32, 67, 114, 101, 100, 101, 110, 116, 105, 97, 108, 61 >>
        \o ak \o << 47 >> \o credential_scope
        \o << 44, 32, 83, 105, 103, 110, 101, 100, 72, 101, 97, 100, 101,
           114, 115, 61 >>
        \o signed_headers
        \o << 44, 32, 83, 105, 103, 110, 97, 116, 117, 114, 101, 61 >>
        \o signature

\* ok is FALSE when the canonical headers panic
make_authorization(self, req, now) ==
    LET signing_key == make_signing_key(self, now)
        credential_scope == make_credential_scope(self, now)
        s == make_string_to_sign(self, req, now)
        signature == base16(hmac_sha256(signing_key, s.string_to_sign))
    IN  [ok |-> s.ok,
         authorization |-> FormatAuthorization(self.credential.ak, credential_scope,
                                               s.signed_headers, signature)]

\* fill_user_agent without its test: the default always set
fill_user_agent_always(headers) ==
    HeaderMap_insert(headers, USER_AGENT, DEFAULT_USER_AGENT)

\* the user-agent step of fill_request_with_uuid
fill_user_agent(headers) ==
    IF ~HeaderMap_contains(headers, USER_AGENT)
    THEN HeaderMap_insert(headers, USER_AGENT, DEFAULT_USER_AGENT)
    ELSE headers

\* fill_request_with_uuid writing every header value back trimmed
fill_request_normalizing(self, req, now, uuid) ==
    LET h0 == [ i \in 1..Len(req.headers) |->
                 [name |-> req.headers[i].name,
                  values |-> [ j \in 1..Len(req.headers[i].values) |->
                                 trim_all(req.headers[i].values[j]) ]] ]
        h1 == HeaderMap_insert(h0, DATE_HEADER, FormatLongDate(now))
    IN  [ok |-> IsVisibleStr(uuid),
         request |-> [req EXCEPT !.headers =
                         fill_user_agent(HeaderMap_insert(h1, NONCE_HEADER, uuid))]]

\* ok is FALSE when HeaderValue::from_str(uuid).unwrap() panics, the date
\* header then being set already
fill_request_with_uuid(self, req, now, uuid) ==
    LET request_date_time == FormatLongDate(now)
        h1 == HeaderMap_insert(req.headers, DATE_HEADER, request_date_time)
    IN  IF ~IsVisibleStr(uuid)
        THEN [ok |-> FALSE, request |-> [req EXCEPT !.headers = h1]]
        ELSE [ok |-> TRUE,
              request |-> [req EXCEPT !.headers =
                              fill_user_agent(HeaderMap_insert(h1, NONCE_HEADER, uuid))]]

\* the last step of sign_request_2: the Authorization header is set, or
\* an unwrap() has panicked
set_authorization(filled, a) ==
    IF ~filled.ok \/ ~a.ok \/ ~IsVisibleStr(a.authorization)
    THEN [request |-> filled.request, result |-> "Panic"]
    ELSE [request |-> [filled.request EXCEPT !.headers =
                          HeaderMap_insert(filled.request.headers, AUTHORIZATION,
                                           a.authorization)],
          result |-> "Ok"]

\* the request as the call leaves it, and what the call returns: "Ok" is
\* Ok(true), "Panic" an unwrap() of an Err
sign_request_2(self, req, now, uuid) ==
    LET filled == fill_request_with_uuid(self, req, now, uuid)
    IN  set_authorization(filled, make_authorization(self, filled.request, now))

\* sign_request checking the credential after the headers are filled
sign_request_fill_first(self, req, now, uuid) ==
    IF ~is_valid(self.credential)
    THEN [request |-> fill_request_with_uuid(self, req, now, uuid).request,
          result |-> "ErrInvalidCredential"]
    ELSE sign_request_2(self, req, now, uuid)

\* "ErrInvalidCredential" is Err(Error::new_invalid_credential())
sign_request(self, req, now, uuid) ==
    IF ~is_valid(self.credential)
    THEN [request |-> req, result |-> "ErrInvalidCredential"]
    ELSE sign_request_2(self, req, now, uuid)

-----------------------------------------------------------------------------
(* The inputs the model draws from.                                        *)

\* 2018-04-05T01:02:03Z
Time1 == [year |-> 2018, month |-> 4, day |-> 5, hour |-> 1, minute |-> 2, second |-> 3]

\* 2018-01-01T00:00:00Z
Time2 == [year |-> 2018, month |-> 1, day |-> 1, hour |-> 0, minute |-> 0, second |-> 0]

\* "55f3919e-3a7d-4174-b117-f150ff25e274"
Uuid1 ==
    << 53, 53, 102, 51, 57, 49, 57, 101, 45, 51, 97, 55, 100, 45, 52,
           49, 55, 52, 45, 98, 49, 49, 55, 45, 102, 49, 53, 48,
           102, 102, 50, 53, 101, 50, 55, 52 >>

\* "0b0e4c2a-8f3d-4e6b-9c1a-7d5f2a1b3c4d"
Uuid2 ==
    << 48, 98, 48, 101, 52, 99, 50, 97, 45, 56, 102, 51, 100, 45, 52,
           101, 54, 98, 45, 57, 99, 49, 97, 45, 55, 100, 53, 102,
           50, 97, 49, 98, 51, 99, 52, 100 >>

\* what sign_request reads: Utc::now() and
\* Uuid::new_v4().to_hyphenated().to_string()
ClockAndUuid ==
    { [now |-> Time1, uuid |-> Uuid1], [now |-> Time2, uuid |-> Uuid2] }

\* the (now, uuid) given to sign_request_2 directly: uuid is any &str,
\* here also "n\n", which holds a line feed
TimeAndNonce ==
    ClockAndUuid \cup { [now |-> Time1, uuid |-> << 110, 10 >>] }

\* "service_name"
ServiceName ==
    << 115, 101, 114, 118, 105, 99, 101, 95, 110, 97, 109, 101 >>

\* "cn-north-1"
RegionCnNorth1 ==
    << 99, 110, 45, 110, 111, 114, 116, 104, 45, 49 >>

\* Signer::new(Credential::new(ak, sk), service_name, region): the signer
\* ("ak", "sk") of the tests, one with an empty access key and one whose
\* region, "cn\n", holds a line feed
Signers ==
    { [credential |-> [ak |-> << 97, 107 >>, sk |-> << 115, 107 >>],
       service_name |-> ServiceName, region |-> RegionCnNorth1],
      [credential |-> [ak |-> <<>>, sk |-> << 115, 107 >>],
       service_name |-> ServiceName, region |-> RegionCnNorth1],
      [credential |-> [ak |-> << 97, 107 >>, sk |-> << 115, 107 >>],
       service_name |-> ServiceName, region |-> << 99, 110, 10 >>] }

\* Request::builder().method(..).uri(..).body(..): the requests before any
\* header is given, GET /v1?b=2&a=1 with no body and POST / with body "{}"
BareRequests ==
    { [method |-> << 71, 69, 84 >>, path |-> << 47, 118, 49 >>, query |-> << << 98, 61, 50, 38, 97, 61, 49 >> >>,
       headers |-> <<>>, body |-> <<>>],
      [method |-> << 80, 79, 83, 84 >>, path |-> << 47 >>, query |-> <<>>,
       headers |-> <<>>, body |-> << 123, 125 >>] }

\* the headers a caller gives the builder, as (name, value): A: 1,
\* a: " 2  3", z: the byte 0xFF
SignableHeaderChoices ==
    { << << 65 >>, << 49 >> >>,
      << << 97 >>, << 32, 50, 32, 32, 51 >> >>,
      << << 122 >>, << 255 >> >> }

\* user-agent: myapp, Authorization: old, x-jdcloud-date: d0
UnsignedHeaderChoices ==
    { << USER_AGENT, << 109, 121, 97, 112, 112 >> >>,
      << << 65, 117, 116, 104, 111, 114, 105, 122, 97, 116, 105, 111,
           110 >>, << 111, 108, 100 >> >>,
      << DATE_HEADER, << 100, 48 >> >> }

HeaderChoices == SignableHeaderChoices \cup UnsignedHeaderChoices

\* Builder::header(name, value): HeaderName lowercases the name, and the
\* value is appended to the values of the name
Builder_header(req, name, value) ==
    [req EXCEPT !.headers = HeaderMap_append(req.headers, ToLower(name), value)]

HeaderCount(req) == Len(HeaderMap_iter(req.headers))

NoCall == [op |-> "none", now |-> Time1, uuid |-> <<>>]

-----------------------------------------------------------------------------
(* Spec: one request, built by its caller and then signed.                 *)

Idle2 ==
    /\ request2 = <<>> /\ result2 = "None"

IdleQuery ==
    /\ query = <<>> /\ qvec = <<>> /\ qcanon = <<>>
    /\ query2 = <<>> /\ qcanon2 = <<>>

IdleTrim ==
    /\ hvalue = <<>> /\ hline = <<>>

IdleResign ==
    /\ first_signed = <<>>

Init ==
    /\ signer \in Signers
    /\ request \in BareRequests
    /\ result = "None"
    /\ nsigns = 0
    /\ pre = request
    /\ call = NoCall
    /\ Idle2 /\ IdleQuery /\ IdleTrim /\ IdleResign

\* the caller gives the request one more header
Header(name, value) ==
    /\ nsigns = 0
    /\ HeaderCount(request) < MaxHeaders
    /\ request' = Builder_header(request, name, value)
    /\ UNCHANGED << signer, result, nsigns, pre, call, request2, result2,
                    query, qvec, qcanon, query2, qcanon2, hvalue, hline, first_signed >>

\* signer.sign_request(&mut request), with the clock and the uuid it reads
CallSignRequest(now, uuid) ==
    /\ result # "Panic"
    /\ nsigns < MaxSigns
    /\ LET r == sign_request(signer, request, now, uuid)
       IN  /\ request' = r.request
           /\ result' = r.result
    /\ nsigns' = nsigns + 1
    /\ pre' = request
    /\ call' = [op |-> "sign_request", now |-> now, uuid |-> uuid]
    /\ UNCHANGED << signer, request2, result2,
                    query, qvec, qcanon, query2, qcanon2, hvalue, hline, first_signed >>

\* signer.sign_request_2(&mut request, &now, uuid)
CallSignRequest2(now, uuid) ==
    /\ result # "Panic"
    /\ nsigns < MaxSigns
    /\ LET r == sign_request_2(signer, request, now, uuid)
       IN  /\ request' = r.request
           /\ result' = r.result
    /\ nsigns' = nsigns + 1
    /\ pre' = request
    /\ call' = [op |-> "sign_request_2", now |-> now, uuid |-> uuid]
    /\ UNCHANGED << signer, request2, result2,
                    query, qvec, qcanon, query2, qcanon2, hvalue, hline, first_signed >>

Next ==
    \/ \E h \in HeaderChoices : Header(h[1], h[2])
    \/ \E in \in ClockAndUuid : CallSignRequest(in.now, in.uuid)
    \/ \E in \in TimeAndNonce : CallSignRequest2(in.now, in.uuid)

Spec == Init /\ [][Next]_vars

-----------------------------------------------------------------------------
(* Helpers of the properties.                                              *)

\* the first position at which pat occurs in s, 0 if there is none
IndexOf(s, pat) ==
    LET at == { i \in 1..(Len(s) - Len(pat) + 1) : SubSeq(s, i, i + Len(pat) - 1) = pat }
    IN  IF at = {} THEN 0 ELSE CHOOSE i \in at : \A k \in at : i <= k

\* the value of the Authorization header of a request
AuthorizationOf(req) == HeaderMap_get_all(req.headers, AUTHORIZATION)[1]

\* the SignedHeaders field of an Authorization value
SignedHeadersField(a) ==
    LET open == << 44, 32, 83, 105, 103, 110, 101, 100, 72, 101, 97, 100, 101,
           114, 115, 61 >>
        close == << 44, 32, 83, 105, 103, 110, 97, 116, 117, 114, 101, 61 >>
    IN  SubSeq(a, IndexOf(a, open) + Len(open), IndexOf(a, close) - 1)

HeaderNames(headers) == { headers[i].name : i \in 1..Len(headers) }

SignableNames(headers) == HeaderNames(headers) \ { USER_AGENT, AUTHORIZATION }

\* the least name of a non-empty set of names, in byte order
LeastName(names) == CHOOSE x \in names : \A y \in names : StrCmp(x, y) # "Greater"

\* s, '; s', '; s', ..: n times the name s, separated by ';'
RECURSIVE Repeated(_, _)
Repeated(s, n) == IF n = 1 THEN s ELSE s \o << 59 >> \o Repeated(s, n - 1)

\* the names in ascending order joined with ';', each written once
RECURSIVE JoinedNames(_)
JoinedNames(names) ==
    IF names = {} THEN <<>>
    ELSE LET m == LeastName(names)
         IN  IF names = { m } THEN m
             ELSE m \o << 59 >> \o JoinedNames(names \ { m })

\* the names in ascending order joined with ';', each written once for
\* every value it has in headers
RECURSIVE JoinedEntryNames(_, _)
JoinedEntryNames(names, headers) ==
    IF names = {} THEN <<>>
    ELSE LET m == LeastName(names)
             r == Repeated(m, Len(HeaderMap_get_all(headers, m)))
         IN  IF names = { m } THEN r
             ELSE r \o << 59 >> \o JoinedEntryNames(names \ { m }, headers)

IsLowercase(s) == \A i \in 1..Len(s) : ~(s[i] >= 65 /\ s[i] <= 90)

Signed == call.op # "none"

-----------------------------------------------------------------------------
(* Properties of Spec.                                                     *)

\* C1: when the credential of the signer is not valid, sign_request
\* returns the invalid-credential error and leaves the request, and so
\* every header of it, exactly as it was.
C1_InvalidCredentialLeavesRequest ==
    (call.op = "sign_request" /\ ~is_valid(signer.credential))
        => (result = "ErrInvalidCredential" /\ request = pre)

\* C1 happens: sign_request has refused a request that carries headers
C1_Witness ==
    /\ call.op = "sign_request"
    /\ ~is_valid(signer.credential)
    /\ result = "ErrInvalidCredential"
    /\ request.headers # <<>>

\* C2: a signing call leaves the user-agent header of a request that has
\* one as it was, and the only user-agent it ever sets is the default
\* "JdcloudSdkRust/0.1.0", on a request that had none.
C2_UserAgentPreserved ==
    Signed =>
        /\ HeaderMap_contains(pre.headers, USER_AGENT)
              => HeaderMap_get_all(request.headers, USER_AGENT)
                     = HeaderMap_get_all(pre.headers, USER_AGENT)
        /\ ~HeaderMap_contains(pre.headers, USER_AGENT)
              => HeaderMap_get_all(request.headers, USER_AGENT)
                     \in { <<>>, << DEFAULT_USER_AGENT >> }
        /\ result = "Ok" => HeaderMap_contains(request.headers, USER_AGENT)

\* C2 happens: a request with its own user-agent has been signed
C2_Witness ==
    /\ Signed
    /\ result = "Ok"
    /\ HeaderMap_contains(pre.headers, USER_AGENT)
    /\ HeaderMap_get_all(request.headers, USER_AGENT) # << DEFAULT_USER_AGENT >>

\* C3 as stated: after a signing, SignedHeaders is the set of the header
\* names of the request without user-agent and authorization, each name
\* once, lowercase, ascending, joined with ';'.
C3_SignedHeadersAreTheNameSet ==
    (Signed /\ result = "Ok")
        => SignedHeadersField(AuthorizationOf(request))
               = JoinedNames(SignableNames(request.headers))

\* C3 amended: after a signing, SignedHeaders is the list of the names of
\* the header entries of the request without user-agent and
\* authorization, a name once for each value it has, lowercase, ascending
\* in byte order, joined with ';' and with no trailing separator; it holds
\* x-jdcloud-date and x-jdcloud-nonce, once each; and a request without a
\* signable header has an empty list and an empty canonical header block.
C3_SignedHeadersAreTheEntryNames ==
    /\ (Signed /\ result = "Ok") =>
          LET field == SignedHeadersField(AuthorizationOf(request))
          IN  /\ field = JoinedEntryNames(SignableNames(request.headers),
                                          request.headers)
              /\ IsLowercase(field)
              /\ HeaderMap_get_all(request.headers, DATE_HEADER)
                     = << FormatLongDate(call.now) >>
              /\ HeaderMap_get_all(request.headers, NONCE_HEADER) = << call.uuid >>
              /\ field # <<>> /\ field[Len(field)] # 59
    /\ SignableNames(request.headers) = {} =>
          make_canonical_header_str_and_signed_headers(request)
              = [ok |-> TRUE, res |-> <<>>, signed_headers |-> <<>>]

\* C3 happens: a request with two values of the header a has been signed
C3_Witness ==
    /\ Signed
    /\ result = "Ok"
    /\ Len(HeaderMap_get_all(request.headers, << 97 >>)) = 2
    /\ SignedHeadersField(AuthorizationOf(request))
           = << 97, 59, 97, 59, 120, 45, 106, 100, 99, 108, 111, 117, 100, 45,
           100, 97, 116, 101, 59, 120, 45, 106, 100, 99, 108,
           111, 117, 100, 45, 110, 111, 110, 99, 101 >>

\* C5: a successful signing changes nothing but the headers
\* x-jdcloud-date, x-jdcloud-nonce, authorization and, when the request
\* had none, user-agent: the method, the URI, the body and the values of
\* every other header are as before, and every header name the request
\* had it still has.
C5_SigningFrame ==
    (Signed /\ result = "Ok") =>
        /\ request.method = pre.method
        /\ request.path = pre.path
        /\ request.query = pre.query
        /\ request.body = pre.body
        /\ HeaderNames(pre.headers) \subseteq HeaderNames(request.headers)
        /\ HeaderNames(request.headers) =
               HeaderNames(pre.headers)
                   \cup { DATE_HEADER, NONCE_HEADER, USER_AGENT, AUTHORIZATION }
        /\ \A name \in HeaderNames(request.headers)
                          \ { DATE_HEADER, NONCE_HEADER, AUTHORIZATION } :
               \/ (name = USER_AGENT /\ ~HeaderMap_contains(pre.headers, USER_AGENT))
               \/ HeaderMap_get_all(request.headers, name)
                      = HeaderMap_get_all(pre.headers, name)

\* C5 happens: a POST request with a body, a header a whose value has
\* spaces to trim and an x-jdcloud-date of its own has been signed
C5_Witness ==
    /\ Signed
    /\ result = "Ok"
    /\ pre.body # <<>>
    /\ HeaderMap_get_all(pre.headers, << 97 >>) = << << 32, 50, 32, 32, 51 >> >>
    /\ HeaderMap_get_all(pre.headers, DATE_HEADER) = << << 100, 48 >> >>
    /\ HeaderMap_get_all(request.headers, DATE_HEADER) # << << 100, 48 >> >>

\* C6 as stated: once the credential is valid, every signing call
\* returns success.
C6_ValidCredentialAlwaysSucceeds ==
    (Signed /\ is_valid(signer.credential)) => result = "Ok"

-----------------------------------------------------------------------------
(* SpecPair: two requests with the same signable headers, signed with the  *)
(* same signer, timestamp and nonce.                                       *)

\* the headers only one of the two requests is given
PairHeaderChoices ==
    UnsignedHeaderChoices \cup { << NONCE_HEADER, << 110, 48 >> >> }

\* a user-agent of its own for the first request
FirstHeaderChoices ==
    { << USER_AGENT, << 102, 105, 114, 115, 116 >> >> }

InitPair ==
    /\ signer \in Signers
    /\ request \in BareRequests
    /\ request2 = request
    /\ result = "None"
    /\ result2 = "None"
    /\ nsigns = 0
    /\ pre = request
    /\ call = NoCall
    /\ IdleQuery /\ IdleTrim /\ IdleResign

\* both requests are given the same header
PairHeader(name, value) ==
    /\ call.op = "none"
    /\ HeaderCount(request) < MaxHeaders
    /\ HeaderCount(request2) < MaxHeaders
    /\ request' = Builder_header(request, name, value)
    /\ request2' = Builder_header(request2, name, value)
    /\ UNCHANGED << signer, result, nsigns, pre, call, result2,
                    query, qvec, qcanon, query2, qcanon2, hvalue, hline, first_signed >>

\* the first request alone is given a header that is not signed
PairHeaderFirst(name, value) ==
    /\ call.op = "none"
    /\ HeaderCount(request) < MaxHeaders
    /\ ~HeaderMap_contains(request.headers, ToLower(name))
    /\ request' = Builder_header(request, name, value)
    /\ UNCHANGED << signer, result, nsigns, pre, call, request2, result2,
                    query, qvec, qcanon, query2, qcanon2, hvalue, hline, first_signed >>

\* the second request alone is given a header that is not signed
PairHeaderSecond(name, value) ==
    /\ call.op = "none"
    /\ HeaderCount(request2) < MaxHeaders
    /\ request2' = Builder_header(request2, name, value)
    /\ UNCHANGED << signer, request, result, nsigns, pre, call, result2,
                    query, qvec, qcanon, query2, qcanon2, hvalue, hline, first_signed >>

\* signer.sign_request_2(&mut request, &now, uuid)
PairSignFirst(now, uuid) ==
    /\ call.op = "none"
    /\ LET r == sign_request_2(signer, request, now, uuid)
       IN  /\ request' = r.request
           /\ result' = r.result
    /\ nsigns' = nsigns + 1
    /\ pre' = request
    /\ call' = [op |-> "sign_request_2", now |-> now, uuid |-> uuid]
    /\ UNCHANGED << signer, request2, result2,
                    query, qvec, qcanon, query2, qcanon2, hvalue, hline, first_signed >>

\* signer.sign_request_2(&mut request2, &now, uuid), with the timestamp
\* and the nonce of the first call
PairSignSecond ==
    /\ call.op # "none"
    /\ result2 = "None"
    /\ LET r == sign_request_2(signer, request2, call.now, call.uuid)
       IN  /\ request2' = r.request
           /\ result2' = r.result
    /\ UNCHANGED << signer, request, result, nsigns, pre, call,
                    query, qvec, qcanon, query2, qcanon2, hvalue, hline, first_signed >>

NextPair ==
    \/ \E h \in SignableHeaderChoices : PairHeader(h[1], h[2])
    \/ \E h \in FirstHeaderChoices : PairHeaderFirst(h[1], h[2])
    \/ \E h \in PairHeaderChoices : PairHeaderSecond(h[1], h[2])
    \/ \E in \in ClockAndUuid : PairSignFirst(in.now, in.uuid)
    \/ PairSignSecond

SpecPair == InitPair /\ [][NextPair]_vars

\* C4: two requests that agree on method, path, query, body and on every
\* header but user-agent, authorization, x-jdcloud-date and
\* x-jdcloud-nonce, signed by sign_request_2 with the same signer,
\* timestamp and nonce, end alike, and when they succeed they carry the
\* same Authorization value.
C4_AuthorizationIsAFunctionOfItsInputs ==
    result2 # "None" =>
        /\ result2 = result
        /\ result = "Ok" => AuthorizationOf(request) = AuthorizationOf(request2)

\* C4 happens: both requests are signed, the second came with an
\* authorization header of its own and their user-agents differ
C4_Witness ==
    /\ result = "Ok"
    /\ result2 = "Ok"
    /\ HeaderMap_find(request2.headers, AUTHORIZATION) = 1
    /\ HeaderMap_get_all(request.headers, USER_AGENT)
           # HeaderMap_get_all(request2.headers, USER_AGENT)
    /\ SignableNames(pre.headers) # {}
    /\ AuthorizationOf(request) = AuthorizationOf(request2)

-----------------------------------------------------------------------------
(* SpecQuery: make_canonical_query_str on a raw query string and on a      *)
(* rearrangement of its pieces.                                            *)

\* the pieces a raw query is made of: the empty piece, a, a=2, a=1, ~=/,
\* %ff=+ and B=%2f%25
QueryPieces ==
    { <<>>, << 97 >>, << 97, 61, 50 >>, << 97, 61, 49 >>, << 126, 61, 47 >>, << 37, 102, 102, 61, 43 >>, << 66, 61, 37, 50, 102, 37, 50, 53 >> }

RECURSIVE JoinAmp(_)
\* the pieces joined with '&'
JoinAmp(pieces) ==
    IF pieces = <<>> THEN <<>>
    ELSE IF Len(pieces) = 1 THEN pieces[1]
    ELSE pieces[1] \o << 38 >> \o JoinAmp(Tail(pieces))

\* request.uri().query(): None, or Some of up to MaxQueryPieces pieces
QueryInputs ==
    { <<>> } \cup
    { << JoinAmp(ps) >> :
        ps \in UNION { [1..n -> QueryPieces] : n \in 0..MaxQueryPieces } }

InitQuery ==
    /\ query \in QueryInputs
    /\ qvec = <<>> /\ qcanon = <<>> /\ query2 = <<>> /\ qcanon2 = <<>>
    /\ signer = <<>> /\ request = <<>> /\ result = "None" /\ nsigns = 0
    /\ pre = <<>> /\ call = NoCall
    /\ Idle2 /\ IdleTrim /\ IdleResign

\* make_canonical_query_str(&req) for a request whose query is query
CallMakeCanonicalQueryStr ==
    /\ qcanon = <<>>
    /\ qvec' = << canonical_query_vec(query) >>
    /\ qcanon' = << make_canonical_query_str(query) >>
    /\ UNCHANGED << signer, request, result, nsigns, pre, call, request2,
                    result2, query, query2, qcanon2, hvalue, hline, first_signed >>

\* make_canonical_query_str(&req2) for a request whose query is query
\* with its pieces i and j exchanged
CallOnRearranged(i, j) ==
    /\ query # <<>>
    /\ qcanon2 = <<>>
    /\ LET pieces == SplitOn(query[1], 38)
       IN  /\ i < j /\ j <= Len(pieces)
           /\ LET q2 == << JoinAmp([pieces EXCEPT ![i] = pieces[j],
                                                  ![j] = pieces[i]]) >>
              IN  /\ query2' = q2
                  /\ qcanon2' = << make_canonical_query_str(q2) >>
    /\ UNCHANGED << signer, request, result, nsigns, pre, call, request2,
                    result2, query, qvec, qcanon, hvalue, hline, first_signed >>

NextQuery ==
    \/ CallMakeCanonicalQueryStr
    \/ \E i, j \in 1..MaxQueryPieces : CallOnRearranged(i, j)

SpecQuery == InitQuery /\ [][NextQuery]_vars

\* a <= b in the order of str: by the first character that differs, a
\* prefix before its extensions
LexLeq(a, b) ==
    \/ Len(a) <= Len(b) /\ SubSeq(b, 1, Len(a)) = a
    \/ \E i \in 1..Len(a) :
          /\ i <= Len(b)
          /\ SubSeq(a, 1, i - 1) = SubSeq(b, 1, i - 1)
          /\ a[i] < b[i]

\* x <= y for pairs: by key, and by value for equal keys
PairLeq(x, y) ==
    IF x[1] = y[1] THEN LexLeq(x[2], y[2]) ELSE LexLeq(x[1], y[1])

Occurrences(v, x) == Cardinality({ i \in 1..Len(v) : v[i] = x })

\* a pair as it is written: both sides percent-encoded by the code
EncodedPair(x) ==
    << utf8_percent_encode(x[1], AWS4_QUERY_ITEM_ENCODE_SET),
       utf8_percent_encode(x[2], AWS4_QUERY_ITEM_ENCODE_SET) >>

\* A-Z a-z 0-9 - _ . ~
Unreserved ==
    (65..90) \cup (97..122) \cup (48..57)
        \cup { 45, 95, 46, 126 }

\* a pair written with the unreserved characters as they are and every
\* other character percent-encoded
UnreservedEncodedItem(x) ==
    utf8_percent_encode(x[1], (0..127) \ Unreserved)
        \o << 61 >>
        \o utf8_percent_encode(x[2], (0..127) \ Unreserved)

\* C7 as stated: the pairs are written in the order of their
\* percent-encoded keys, and of their percent-encoded values for equal keys.
C7_OrderedByEncodedPairs ==
    qcanon # <<>> =>
        \A i, j \in 1..Len(qvec[1]) :
            i < j => PairLeq(EncodedPair(qvec[1][i]), EncodedPair(qvec[1][j]))

\* C7 amended: the pairs are written in the order of their decoded keys,
\* and of their decoded values for equal keys, both in byte order; they
\* are the parsed pairs, each as often as it was parsed, and the result is
\* their encoded items in that order joined with '&'.
C7_OrderedByDecodedPairs ==
    qcanon # <<>> =>
        LET v == qvec[1]
            parsed == form_urlencoded_parse(IF query = <<>> THEN <<>> ELSE query[1])
        IN  /\ \A i, j \in 1..Len(v) : i < j => PairLeq(v[i], v[j])
            /\ Len(v) = Len(parsed)
            /\ \A k \in 1..Len(parsed) :
                   Occurrences(v, parsed[k]) = Occurrences(parsed, parsed[k])
            /\ qcanon[1] = JoinAmp([ i \in 1..Len(v) |-> canonical_query_item(v[i]) ])

\* C7 happens: a query with the keys ~ and a, and a twice with the values
\* 2 and 1, has been canonicalized
C7_Witness ==
    /\ query = << << 126, 61, 47, 38, 97, 61, 50, 38, 97, 61, 49 >> >>
    /\ qcanon # <<>>
    /\ qvec[1] = << << << 97 >>, << 49 >> >>, << << 97 >>, << 50 >> >>, << << 126 >>, << 47 >> >> >>

\* C8 as stated: every pair is written key=value with the unreserved
\* characters A-Z a-z 0-9 - _ . ~ as they are and every other character
\* as the uppercase %XX of its UTF-8 bytes; a key without a value is
\* written key=, and an empty or absent query gives the empty string.
C8_UnreservedPassEverythingElseEncoded ==
    qcanon # <<>> =>
        /\ qcanon[1] = JoinAmp([ i \in 1..Len(qvec[1]) |->
                                   UnreservedEncodedItem(qvec[1][i]) ])
        /\ query \in { <<>>, << <<>> >> } => qcanon[1] = <<>>
        /\ query = << << 97 >> >> => qcanon[1] = << 97, 61 >>

\* C10: a query and the same query with two of its pieces exchanged have
\* the same canonical query string.
C10_OrderIndependent ==
    (qcanon # <<>> /\ qcanon2 # <<>>) => qcanon = qcanon2

\* C10 happens: a=2&a=1&~=/ and ~=/&a=1&a=2 have both been canonicalized
C10_Witness ==
    /\ query = << << 97, 61, 50, 38, 97, 61, 49, 38, 126, 61, 47 >> >>
    /\ query2 = << << 126, 61, 47, 38, 97, 61, 49, 38, 97, 61, 50 >> >>
    /\ qcanon # <<>>
    /\ qcanon2 = qcanon

-----------------------------------------------------------------------------
(* SpecTrim: the canonical header block of a request with one header       *)
(* hello whose value is drawn from the strings of spaces, tabs and 'a'.    *)

ValueChars == { 32, 9, 97 }

HeaderValues == UNION { [1..n -> ValueChars] : n \in 0..MaxValueLen }

InitTrim ==
    /\ hvalue \in HeaderValues
    /\ hline = <<>>
    /\ signer = <<>> /\ request = <<>> /\ result = "None" /\ nsigns = 0
    /\ pre = <<>> /\ call = NoCall
    /\ Idle2 /\ IdleQuery /\ IdleResign

\* make_canonical_header_str_and_signed_headers(&req).0 for
\* Request::builder().method("GET").header("Hello", hvalue).body("")
CallMakeCanonicalHeaderStr ==
    /\ hline = <<>>
    /\ LET req == Builder_header([method |-> << 71, 69, 84 >>, path |-> << 47 >>,
                                  query |-> <<>>, headers |-> <<>>,
                                  body |-> <<>>],
                                 << 72, 101, 108, 108, 111 >>, hvalue)
       IN  hline' = << make_canonical_header_str_and_signed_headers(req).res >>
    /\ UNCHANGED << signer, request, result, nsigns, pre, call, request2,
                    result2, query, qvec, qcanon, query2, qcanon2, hvalue, first_signed >>

NextTrim == CallMakeCanonicalHeaderStr

SpecTrim == InitTrim /\ [][NextTrim]_vars

IsNotSpace(c) == c # 32

\* the position in s of its k-th character that is not a space
NthNonSpace(s, k) ==
    CHOOSE i \in 1..Len(s) :
        /\ IsNotSpace(s[i])
        /\ Cardinality({ j \in 1..i : IsNotSpace(s[j]) }) = k

\* C9: the canonical line of a header is name ':' value '\n' where the
\* value is the given one without its leading and trailing spaces and
\* with every inner run of spaces made one space: the characters that are
\* not spaces, tabs among them, are kept in their order, and two of them
\* are separated by one space exactly when spaces separated them.
C9_TrimAllCollapsesSpaces ==
    hline # <<>> =>
        LET line == hline[1]
            t == SubSeq(line, 7, Len(line) - 1)
            n == Len(SelectSeq(hvalue, IsNotSpace))
        IN  /\ line = << 104, 101, 108, 108, 111, 58 >> \o t \o << 10 >>
            /\ SelectSeq(t, IsNotSpace) = SelectSeq(hvalue, IsNotSpace)
            /\ t # <<>> => (IsNotSpace(t[1]) /\ IsNotSpace(t[Len(t)]))
            /\ \A i \in 1..(Len(t) - 1) : IsNotSpace(t[i]) \/ IsNotSpace(t[i + 1])
            /\ \A k \in 1..(n - 1) :
                   (NthNonSpace(t, k + 1) = NthNonSpace(t, k) + 1)
                       <=> (NthNonSpace(hvalue, k + 1) = NthNonSpace(hvalue, k) + 1)

\* C9 happens: the value " a  \t " has been canonicalized to "a \t"
C9_Witness ==
    /\ hvalue = << 32, 97, 32, 32, 9, 32 >>
    /\ hline = << << 104, 101, 108, 108, 111, 58, 97, 32, 9, 10 >> >>

-----------------------------------------------------------------------------
(* SpecResign: a request built by its caller, signed by sign_request_2,    *)
(* and signed again with the same signer, timestamp and nonce.             *)

InitResign ==
    /\ signer \in Signers
    /\ request \in BareRequests
    /\ result = "None"
    /\ nsigns = 0
    /\ pre = request
    /\ call = NoCall
    /\ first_signed = <<>>
    /\ Idle2 /\ IdleQuery /\ IdleTrim

\* the caller gives the request one more header
ResignHeader(name, value) ==
    /\ nsigns = 0
    /\ HeaderCount(request) < MaxHeaders
    /\ request' = Builder_header(request, name, value)
    /\ UNCHANGED << signer, result, nsigns, pre, call, request2, result2,
                    query, qvec, qcanon, query2, qcanon2, hvalue, hline,
                    first_signed >>

\* the first signer.sign_request_2(&mut request, &now, uuid)
SignFirst(now, uuid) ==
    /\ nsigns = 0
    /\ LET r == sign_request_2(signer, request, now, uuid)
       IN  /\ request' = r.request
           /\ result' = r.result
           /\ first_signed' = r.request
    /\ nsigns' = 1
    /\ pre' = request
    /\ call' = [op |-> "sign_request_2", now |-> now, uuid |-> uuid]
    /\ UNCHANGED << signer, request2, result2,
                    query, qvec, qcanon, query2, qcanon2, hvalue, hline >>

\* signer.sign_request_2(&mut request, &now, uuid) once more, with the
\* timestamp and the nonce of the first call
SignAgain ==
    /\ nsigns >= 1
    /\ nsigns <= MaxResigns
    /\ result = "Ok"
    /\ LET r == sign_request_2(signer, request, call.now, call.uuid)
       IN  /\ request' = r.request
           /\ result' = r.result
    /\ nsigns' = nsigns + 1
    /\ pre' = request
    /\ UNCHANGED << signer, call, request2, result2, query, qvec, qcanon,
                    query2, qcanon2, hvalue, hline, first_signed >>

NextResign ==
    \/ \E h \in HeaderChoices : ResignHeader(h[1], h[2])
    \/ \E in \in TimeAndNonce : SignFirst(in.now, in.uuid)
    \/ SignAgain

SpecResign == InitResign /\ [][NextResign]_vars

\* the request without its user-agent and authorization headers
WithoutUnsigned(req) ==
    [req EXCEPT !.headers = SelectSeq(req.headers, LAMBDA e : ~IsUnsignedHeader(e.name))]

\* C11: sign_request_2 applied again to a signed request, with the same
\* signer, timestamp and nonce, succeeds and leaves the request, every
\* header and the Authorization among them, as the first signing left it,
\* however often it is repeated; and the canonical request of the signed
\* request is the one of the request without its authorization and
\* user-agent headers.
C11_ResigningIsIdempotent ==
    nsigns >= 2 =>
        /\ result = "Ok"
        /\ request = first_signed
        /\ request = pre
        /\ make_canonical_request_str(request)
               = make_canonical_request_str(WithoutUnsigned(request))

\* C11 happens: a request with a header to sign and no user-agent of its
\* own has been signed and then signed again twice
C11_Witness ==
    /\ nsigns = 3
    /\ result = "Ok"
    /\ HeaderMap_get_all(request.headers, USER_AGENT) = << DEFAULT_USER_AGENT >>
    /\ HeaderMap_contains(request.headers, << 97 >>)
    /\ HeaderMap_contains(request.headers, AUTHORIZATION)
    /\ request = first_signed

====
